---- MODULE Spec2Model ----
(***************************************************************************)
(* A model of discord-mercy-tracker: the in-memory Store of bot.py, the    *)
(* canonical data file, the backup folder of backup_manager.py and the     *)
(* counter update of mercy_tracker.py.                                     *)
(*                                                                         *)
(* A Store is a function from user ids to records; a record is a function  *)
(* from category names to counts.  Python dictionaries keep insertion      *)
(* order; only get_status reads it, for the order of the sections of its   *)
(* report, so a dictionary is its mapping and the report a set of sections.*)
(***************************************************************************)
EXTENDS Integers, FiniteSets, Sequences, TLC

VARIABLES
    user_data,  \* bot.py:73, the module-level Store
    canon,      \* the file DATA_FILE: [exists, text]
    folder,     \* the directory BACKUP_FOLDER: [exists, files]
    now,        \* the system clock, in ticks of the file system's mtime
    views,      \* the users who hold ResetConfirmViews made in this run
    nops,       \* how many user actions and API calls have run (bounded)
    last,       \* what the last operation was given and what it returned
    prompts,    \* the calls of ask_amount, from their bot.wait_for on
    reset_data,     \* bot.py:599, the reset time of each rotating event
    sent_reminders, \* bot.py:579, the reminders sent and when
    channel,    \* the messages sent to the reminder channel
    utcoffset,  \* how far the local time of the process is ahead of UTC
    utcnow      \* the clock that reminder_loop reads

\* The state of reminder_loop, which no handler or call of the tracker reads.
reminder_vars == <<reset_data, sent_reminders, channel, utcoffset, utcnow>>

vars == <<user_data, canon, folder, now, views, nops, last, prompts,
          reminder_vars>>

-----------------------------------------------------------------------------
(* Bounds of the model.                                                    *)

\* Ticks of the mtime clock per second of the file-name timestamp.
TicksPerSecond == 2
\* The clock stops at this tick.
MaxTick == 2
\* User actions that change the Store, per behaviour.
MaxOps == 2
\* Calls of the persistence layer per behaviour: when no step fails, and
\* when steps may fail.
MaxCalls == 3
MaxCallsIO == 2

Users == {"u1", "u2"}
\* What a user types as the amount: "0" and "501" pass isdigit() and fail
\* validate_amount.
Amounts == {0, 1, 2, 501}

-----------------------------------------------------------------------------
(* config.py                                                               *)

MAX_BACKUPS == 10
MAX_AMOUNT_PER_COMMAND == 500
VALID_SHARD_TYPES ==
    {"ancient", "void", "sacred", "primal", "primal_legendary",
     "primal_mythical", "remnant"}

-----------------------------------------------------------------------------
(* Dictionaries.                                                           *)

EmptyDict == [k \in {} |-> 0]

\* d[k] = v of Python: adds the key or replaces its value.
DictSet(d, k, v) == [x \in (DOMAIN d) \cup {k} |-> IF x = k THEN v ELSE d[x]]

\* d.get(k, dflt)
DictGet(d, k, dflt) == IF k \in DOMAIN d THEN d[k] ELSE dflt

-----------------------------------------------------------------------------
(* mercy_tracker.py                                                        *)

\* update_tracker with "=" written for "+=".
update_tracker_assigns(data, shard_type, amount) ==
    DictSet(data, shard_type, amount)

\* update_tracker with "-=" for "+=".
update_tracker_subtracts(data, shard_type, amount) ==
    DictSet(data, shard_type, DictGet(data, shard_type, 0) - amount)

update_tracker(data, shard_type, amount) ==
    LET d0 == IF shard_type \notin DOMAIN data
              THEN DictSet(data, shard_type, 0)
              ELSE data
    IN  [d0 EXCEPT ![shard_type] = @ + amount]

\* get_mercy_rules(): per category the tiers in the order of the dictionary.
mercy_rules ==
    [ancient |-> <<[rarity |-> "legendary", start |-> 200, rate |-> 5]>>,
     void    |-> <<[rarity |-> "legendary", start |-> 200, rate |-> 5]>>,
     sacred  |-> <<[rarity |-> "legendary", start |-> 12, rate |-> 2]>>,
     primal  |-> <<[rarity |-> "legendary", start |-> 75, rate |-> 1],
                   [rarity |-> "mythical", start |-> 200, rate |-> 10]>>,
     remnant |-> <<[rarity |-> "mythical", start |-> 24, rate |-> 1]>>]

\* str.title() of the names that get_status prints.
title(name) ==
    CASE name = "ancient" -> "Ancient"
      [] name = "void" -> "Void"
      [] name = "sacred" -> "Sacred"
      [] name = "primal" -> "Primal"
      [] name = "remnant" -> "Remnant"
      [] name = "legendary" -> "Legendary"
      [] name = "mythical" -> "Mythical"

\* status_line with "count <= start_mercy" for "count < start_mercy".
status_line_active_above(rarity, rule, count) ==
    IF count <= rule.start
    THEN [rarity |-> rarity, active |-> FALSE,
          numbers |-> <<rule.start - count, count, rule.start>>]
    ELSE [rarity |-> rarity, active |-> TRUE,
          numbers |-> <<(count - rule.start) * rule.rate>>]

\* The line of one tier: "<Rarity>: <remaining> to mercy .. (<count>/<start>)"
\* below the threshold, "<Rarity>: **MERCY ACTIVE** (+<chance_increase>%
\* chance)" from it on.  The progress bar and the percentage of the first
\* form, computed in floating point, are left out of the line.
status_line(rarity, rule, count) ==
    IF count < rule.start
    THEN [rarity |-> rarity, active |-> FALSE,
          numbers |-> <<rule.start - count, count, rule.start>>]
    ELSE [rarity |-> rarity, active |-> TRUE,
          numbers |-> <<(count - rule.start) * rule.rate>>]

\* max(primal_legendary, primal_mythical)
max(a, b) == IF a >= b THEN a ELSE b

\* The sections of "Handle Primal output specially": one or none.
primal_sections(data) ==
    LET primal_legendary == DictGet(data, "primal_legendary", 0)
        primal_mythical  == DictGet(data, "primal_mythical", 0)
    IN  IF primal_legendary > 0 \/ primal_mythical > 0
        THEN {[title |-> "Primal",
               total |-> max(primal_legendary, primal_mythical),
               lines |-> <<status_line("Legendary", mercy_rules["primal"][1],
                                       primal_legendary),
                           status_line("Mythical", mercy_rules["primal"][2],
                                       primal_mythical)>>]}
        ELSE {}

\* The sections of the loop "Show all other shards".
other_sections(data) ==
    {[title |-> title(shard_type),
      total |-> data[shard_type],
      lines |-> [i \in DOMAIN mercy_rules[shard_type] |->
                    status_line(title(mercy_rules[shard_type][i].rarity),
                                mercy_rules[shard_type][i], data[shard_type])]] :
        shard_type \in ((DOMAIN data) \ {"primal_legendary", "primal_mythical"})
                          \cap DOMAIN mercy_rules}

\* What get_status returns when lines is empty.
NoMercyData == [text |-> "No mercy data tracked yet", sections |-> {}]

get_status(data) ==
    LET sections == primal_sections(data) \cup other_sections(data)
    IN  IF sections = {} THEN NoMercyData
        ELSE [text |-> "report", sections |-> sections]

\* The entry of one tier in "mercy_status": active, remaining and
\* chance_increase.  progress_percent, computed in floating point, is left
\* out of the entry.
mercy_status_entry(rule, count) ==
    IF count < rule.start
    THEN [active |-> FALSE, remaining |-> rule.start - count,
          chance_increase |-> 0]
    ELSE [active |-> TRUE, remaining |-> 0,
          chance_increase |-> (count - rule.start) * rule.rate]

\* The entries of "Handle Primal Legendary" and "Handle Primal Mythical":
\* each is made only when its own counter is above 0.
primal_entries(data) ==
    LET primal_legendary == DictGet(data, "primal_legendary", 0)
        primal_mythical  == DictGet(data, "primal_mythical", 0)
        keys == {k \in {"primal_legendary"} : primal_legendary > 0}
                   \cup {k \in {"primal_mythical"} : primal_mythical > 0}
    IN  [k \in keys |->
            IF k = "primal_legendary"
            THEN [count |-> primal_legendary,
                  mercy_status |->
                      [r \in {"legendary"} |->
                          mercy_status_entry(mercy_rules["primal"][1],
                                             primal_legendary)]]
            ELSE [count |-> primal_mythical,
                  mercy_status |->
                      [r \in {"mythical"} |->
                          mercy_status_entry(mercy_rules["primal"][2],
                                             primal_mythical)]]]

\* The dictionary get_detailed_status returns: the primal entries and
\* one entry for every other key of data that mercy_rules knows.
get_detailed_status(data) ==
    LET primal == primal_entries(data)
        others == ((DOMAIN data) \ {"primal_legendary", "primal_mythical"})
                      \cap DOMAIN mercy_rules
    IN  [k \in (DOMAIN primal) \cup others |->
            IF k \in others
            THEN [count |-> data[k],
                  mercy_status |->
                      [r \in {mercy_rules[k][i].rarity : i \in DOMAIN mercy_rules[k]} |->
                          mercy_status_entry(
                              mercy_rules[k][CHOOSE i \in DOMAIN mercy_rules[k] :
                                                mercy_rules[k][i].rarity = r],
                              data[k])]]
            ELSE primal[k]]

\* calculate_mercy_chance with the count itself for the extra summons.
calculate_mercy_chance_of_count(current_count, mercy_start, rate_per_summon) ==
    IF current_count < mercy_start THEN 0
    ELSE current_count * rate_per_summon

calculate_mercy_chance(current_count, mercy_start, rate_per_summon) ==
    IF current_count < mercy_start THEN 0
    ELSE LET extra_summons == current_count - mercy_start
         IN  extra_summons * rate_per_summon

-----------------------------------------------------------------------------
(* utils.py                                                                *)

\* validate_amount with "amount < max_amount".
validate_amount_exclusive(amount, max_amount) ==
    1 <= amount /\ amount < max_amount /\ max_amount <= MAX_AMOUNT_PER_COMMAND

validate_amount(amount, max_amount) ==
    1 <= amount /\ amount <= max_amount /\ max_amount <= MAX_AMOUNT_PER_COMMAND

-----------------------------------------------------------------------------
(* json.dump and json.load on a Store.                                     *)
(*                                                                         *)
(* The text of a JSON object of objects is modelled by what it lists: the  *)
(* top-level keys and the (user, category, count) members.  A file that a  *)
(* failed write left truncated is a text json.load rejects.  A text that   *)
(* json.dump did not write can be JSON of another shape: top tells an      *)
(* array from an object, flat names the keys whose value is no object.     *)

json_dump(data) ==
    [ok      |-> TRUE,
     keys    |-> DOMAIN data,
     members |-> UNION {{<<u, c, data[u][c]>> : c \in DOMAIN data[u]}
                        : u \in DOMAIN data},
     top     |-> "object",
     flat    |-> {}]

Truncated == [ok |-> FALSE, keys |-> {}, members |-> {}, top |-> "", flat |-> {}]

\* The text "[]".
ArrayText == [ok |-> TRUE, keys |-> {}, members |-> {}, top |-> "array", flat |-> {}]

\* The text {"u1": 5}.
FlatText == [ok |-> TRUE, keys |-> {"u1"}, members |-> {}, top |-> "object",
             flat |-> {"u1"}]

\* json.load raises JSONDecodeError exactly on a text that is not JSON.
json_parses(text) == text.ok

json_load(text) ==
    [u \in text.keys |->
        [c \in {m[2] : m \in {x \in text.members : x[1] = u}} |->
            (CHOOSE m \in text.members : m[1] = u /\ m[2] = c)[3]]]

-----------------------------------------------------------------------------
(* The backup folder.                                                      *)
(*                                                                         *)
(* A snapshot's file name is user_data_backup_<timestamp>[_<suffix>].json: *)
(* the pair of the timestamp (in seconds) and the suffix, "" for the       *)
(* automatic snapshots of backup_data.  folder.files maps each name in the *)
(* folder to the file's modification time and text.                        *)

NoFiles == [n \in {} |-> 0]

\* datetime.now().strftime("%Y%m%d_%H%M%S"): the clock cut to the second.
timestamp(t) == t \div TicksPerSecond

backup_filename(t, suffix) == <<timestamp(t), suffix>>

\* What a call returns where Python returns a path or None.
NoPath == [ok |-> FALSE, name |-> <<0, "">>]
Path(name) == [ok |-> TRUE, name |-> name]

\* What a call returns where Python returns the loaded Store or None.
NoStore == [ok |-> FALSE, data |-> EmptyDict]
Loaded(data) == [ok |-> TRUE, data |-> data]

ensure_backup_folder(fd) == [fd EXCEPT !.exists = TRUE]

\* open(path, 'w') followed by a write of text that ran to its end.
write_file(fd, name, text, t) ==
    [fd EXCEPT !.files =
        [n \in (DOMAIN fd.files) \cup {name} |->
            IF n = name THEN [mtime |-> t, text |-> text] ELSE fd.files[n]]]

\* os.remove replaced by a truncating open(file_path, 'w').
remove_files_truncates(fd, gone) ==
    [fd EXCEPT !.files =
        [n \in DOMAIN fd.files |->
            IF n \in gone THEN [mtime |-> fd.files[n].mtime, text |-> Truncated]
            ELSE fd.files[n]]]

remove_files(fd, gone) ==
    [fd EXCEPT !.files = [n \in (DOMAIN fd.files) \ gone |-> fd.files[n]]]

\* The listing [f for f in os.listdir(..) if f.startswith("user_data_backup_")].
backup_files(fd) == DOMAIN fd.files

\* The sort without reverse=True: oldest first.
sorts_before_ascending(fd, a, b) == fd.files[a].mtime <= fd.files[b].mtime

\* backup_files.sort(key=getmtime, reverse=True): a may stand before b in
\* the sorted list.  os.listdir gives the names in arbitrary order and the
\* sort is stable, so files of one mtime end in any order.
sorts_before(fd, a, b) == fd.files[a].mtime >= fd.files[b].mtime

\* The names that stand before f in every sorted list.
always_before(fd, f) == {g \in backup_files(fd) : ~sorts_before(fd, f, g)}

\* The names that may stand on either side of f (f itself among them).
tied_with(fd, f) ==
    {g \in backup_files(fd) : sorts_before(fd, f, g) /\ sorts_before(fd, g, f)}

\* How many names the slice backup_files[MAX_BACKUPS:] holds.
excess_count(total) == IF total <= MAX_BACKUPS THEN 0 ELSE total - MAX_BACKUPS

\* The sets backup_files[MAX_BACKUPS:] can be: the names that no sorted
\* list places among the first MAX_BACKUPS, and of the names tied across
\* that place as many as fill the slice.
files_to_remove(fd) ==
    LET all   == backup_files(fd)
        n     == excess_count(Cardinality(all))
        keep  == Cardinality(all) - n
        sure  == {f \in all : Cardinality(always_before(fd, f)) >= keep}
        maybe == {f \in all \ sure :
                    Cardinality(always_before(fd, f))
                        + Cardinality(tied_with(fd, f)) > keep}
    IN  IF n = 0 THEN {{}}
        ELSE {sure \cup s : s \in {x \in SUBSET maybe :
                                     Cardinality(x) = n - Cardinality(sure)}}

\* The loop over files_to_remove stopped by a failing os.remove: the files
\* removed so far are a leading part of the slice, the failing file and
\* those after it stay.
removed_before_failure(fd, slice) ==
    {p \in SUBSET slice :
        /\ p # slice
        /\ \A a \in p, b \in slice \ p : sorts_before(fd, a, b)}

\* backup_files[0] taken from the unsorted listing.
latest_backups_unsorted(fd) == backup_files(fd)

\* The candidates for backup_files[0] after the sort.
latest_backups(fd) ==
    {f \in backup_files(fd) : always_before(fd, f) = {}}

-----------------------------------------------------------------------------
(* Failures of the file system.  Each call is given the step of it that    *)
(* fails, "none" for a call whose every step works.                        *)

NoFault == {"none"}
\* backup_data: os.makedirs, open(path, 'w'), json.dump part-way, and in
\* cleanup_old_backups os.listdir and os.remove.
BackupFaults == {"none", "mkdir", "open", "write", "listdir", "remove"}
\* create_manual_backup: as backup_data, without the cleanup.
SnapshotFaults == {"none", "mkdir", "open", "write"}
\* cleanup_old_backups called on its own.
CleanupFaults == {"none", "listdir", "remove"}
\* save_data's write of DATA_FILE: open(DATA_FILE, "w"), json.dump part-way.
WriteFaults == {"none", "open", "write"}
\* restore_data: os.makedirs, os.listdir, open(path, 'r').
RestoreFaults == {"none", "mkdir", "listdir", "read"}
\* load_data's open(DATA_FILE, "r"), other than the file being absent.
ReadFaults == {"none", "read"}
\* list_backups: os.makedirs, os.listdir, os.path.getmtime or getsize.
ListFaults == {"none", "mkdir", "listdir", "stat"}
\* restore_from_specific_backup: open(path, 'r').
SpecificFaults == {"none", "read"}

\* The class of the exception a failing step raises: OSError from the file
\* system, JSONDecodeError from json.load of a text that is not JSON.
exception_of(fault) ==
    IF fault = "none" THEN "none"
    ELSE IF fault = "parse" THEN "JSONDecodeError"
    ELSE "OSError"

\* "except json.JSONDecodeError" in the place of "except Exception".
except_JSONDecodeError(exc) == exc = "JSONDecodeError"

\* "except Exception as e", the clause that ends the try block of every
\* function of backup_manager.py: OSError and JSONDecodeError (a
\* ValueError) both derive from Exception.
except_Exception(exc) == exc \in {"OSError", "JSONDecodeError"}

\* Whether a function raises to its caller what its try block raised.
raises_past(exc) == exc # "none" /\ ~except_Exception(exc)

-----------------------------------------------------------------------------
(* backup_manager.py                                                       *)

\* cleanup_old_backups(): the folders it can leave.
\* What the try block of cleanup_old_backups raises.
cleanup_exc(fd, fault) ==
    IF ~fd.exists THEN "none"
    ELSE IF fault = "listdir" THEN exception_of(fault)
    ELSE IF Cardinality(backup_files(fd)) <= MAX_BACKUPS THEN "none"
    ELSE IF fault = "remove" THEN exception_of(fault)
    ELSE "none"

cleanup_old_backups(fd, fault) ==
    IF ~fd.exists \/ fault = "listdir" THEN {fd}
    ELSE IF Cardinality(backup_files(fd)) <= MAX_BACKUPS THEN {fd}
    ELSE IF fault = "remove"
         THEN {remove_files(fd, p) :
                 p \in UNION {removed_before_failure(fd, slice) :
                                slice \in files_to_remove(fd)}}
         ELSE {remove_files(fd, slice) : slice \in files_to_remove(fd)}

\* The snapshot write shared by backup_data and create_manual_backup, up
\* to the end of json.dump: the folder it leaves and whether it raised.
write_snapshot(fd, name, data, t, fault) ==
    IF ~fd.exists /\ fault = "mkdir" THEN [folder |-> fd, raised |-> TRUE]
    ELSE IF fault = "open"
         THEN [folder |-> ensure_backup_folder(fd), raised |-> TRUE]
    ELSE IF fault = "write"
         THEN [folder |-> write_file(ensure_backup_folder(fd), name, Truncated, t),
               raised |-> TRUE]
    ELSE [folder |-> write_file(ensure_backup_folder(fd), name, json_dump(data), t),
          raised |-> FALSE]

\* backup_data(data) at time t: the (folder, returned path) pairs it can
\* end with.
backup_data(fd, data, t, fault) ==
    LET name == backup_filename(t, "")
        w    == write_snapshot(fd, name, data, t, fault)
    IN  IF w.raised
        THEN {[folder |-> w.folder, path |-> NoPath, exc |-> exception_of(fault)]}
        ELSE {[folder |-> f, path |-> Path(name), exc |-> "none"] :
                f \in cleanup_old_backups(w.folder, fault)}

\* create_manual_backup(data, suffix) at time t.
create_manual_backup(fd, data, suffix, t, fault) ==
    LET name == backup_filename(t, suffix)
        w    == write_snapshot(fd, name, data, t, fault)
    IN  IF w.raised
        THEN {[folder |-> w.folder, path |-> NoPath, exc |-> exception_of(fault)]}
        ELSE {[folder |-> w.folder, path |-> Path(name), exc |-> "none"]}

\* What restore_data returns once it has picked latest_backup.
read_backup(fd, name, fault) ==
    IF fault = "read" \/ ~json_parses(fd.files[name].text) THEN NoStore
    ELSE Loaded(json_load(fd.files[name].text))

\* What "with open(backup_path, 'r') as f: data = json.load(f)" raises.
read_exc(fd, name, fault) ==
    IF fault = "read" THEN exception_of(fault)
    ELSE IF ~json_parses(fd.files[name].text) THEN exception_of("parse")
    ELSE "none"

\* restore_data(): the (folder, returned value) pairs it can end with, and
\* what its try block raised.
restore_data(fd, fault) ==
    IF ~fd.exists /\ fault = "mkdir"
    THEN {[folder |-> fd, ret |-> NoStore, exc |-> exception_of(fault)]}
    ELSE LET fd1 == ensure_backup_folder(fd)
         IN  IF fault = "listdir"
             THEN {[folder |-> fd1, ret |-> NoStore, exc |-> exception_of(fault)]}
             ELSE IF backup_files(fd1) = {}
             THEN {[folder |-> fd1, ret |-> NoStore, exc |-> "none"]}
             ELSE {[folder |-> fd1, ret |-> read_backup(fd1, name, fault),
                    exc |-> read_exc(fd1, name, fault)] :
                     name \in latest_backups(fd1)}

\* restore_from_specific_backup(backup_filename): what it returns and what
\* its try block raised.
restore_from_specific_backup(fd, filename, fault) ==
    IF filename \notin DOMAIN fd.files THEN [ret |-> NoStore, exc |-> "none"]
    ELSE [ret |-> read_backup(fd, filename, fault),
          exc |-> read_exc(fd, filename, fault)]

\* The lists that backup_files.sort(key=getmtime, reverse=True) can give
\* of the names in todo.
RECURSIVE sorted_lists(_, _)
sorted_lists(fd, todo) ==
    IF todo = {} THEN {<< >>}
    ELSE UNION {{<<f>> \o rest : rest \in sorted_lists(fd, todo \ {f})} :
                  f \in {g \in todo : \A h \in todo : sorts_before(fd, g, h)}}

\* list_backups(): the (folder, returned list) pairs it can end with, and
\* what its try block raised.  An entry of the list is the file name and
\* its modification time; the size is left out.
list_backups(fd, fault) ==
    IF ~fd.exists /\ fault = "mkdir"
    THEN {[folder |-> fd, ret |-> << >>, exc |-> exception_of(fault)]}
    ELSE LET fd1 == ensure_backup_folder(fd)
         IN  IF fault = "listdir"
             THEN {[folder |-> fd1, ret |-> << >>, exc |-> exception_of(fault)]}
             ELSE IF backup_files(fd1) = {}
             THEN {[folder |-> fd1, ret |-> << >>, exc |-> "none"]}
             ELSE IF fault = "stat"
             THEN {[folder |-> fd1, ret |-> << >>, exc |-> exception_of(fault)]}
             ELSE {[folder |-> fd1,
                    ret |-> [i \in DOMAIN l |->
                               [filename |-> l[i],
                                modified |-> fd1.files[l[i]].mtime]],
                    exc |-> "none"] :
                     l \in sorted_lists(fd1, backup_files(fd1))}

\* isinstance(data, dict) answering True for every JSON value.
is_dict_any(text) == TRUE

\* isinstance(data, dict) for the value json.load gave.
is_dict(text) == text.top = "object"

\* verify_backup_integrity: os.path.exists, open(path, 'r'), json.load.
VerifyFaults == {"none", "read"}

\* verify_backup_integrity(backup_filename): the pair it returns.  The keys
\* of a JSON object are strings, so the check of the user ids never fails.
\* What the try block of verify_backup_integrity raises.
verify_exc(fd, filename, fault) ==
    IF filename \notin DOMAIN fd.files THEN "none"
    ELSE read_exc(fd, filename, fault)

verify_backup_integrity(fd, filename, fault) ==
    IF filename \notin DOMAIN fd.files
    THEN <<FALSE, "Backup file not found">>
    ELSE IF fault = "read" THEN <<FALSE, "Error verifying backup">>
    ELSE LET text == fd.files[filename].text
         IN  IF ~json_parses(text) THEN <<FALSE, "Invalid JSON format">>
             ELSE IF ~is_dict(text)
                  THEN <<FALSE, "Invalid data structure - not a dictionary">>
             ELSE IF text.flat # {}
                  THEN <<FALSE, "Invalid user data structure for user">>
             ELSE <<TRUE, "Backup integrity verified">>

-----------------------------------------------------------------------------
(* bot.py: load_data and save_data                                         *)

\* Python's truth value of what restore_data returned: None and {} are
\* false.
truthy(ret) == ret.ok /\ ret.data # EmptyDict

\* load_data with "return {}" for the whole JSONDecodeError clause.
load_data_no_restore(cn, fd, cfault, rfault) ==
    IF cn.exists /\ cfault # "read" /\ json_parses(cn.text)
    THEN {[folder |-> fd, data |-> json_load(cn.text)]}
    ELSE {[folder |-> fd, data |-> EmptyDict]}

\* load_data(): the (folder, returned Store) pairs it can end with.
load_data(cn, fd, cfault, rfault) ==
    IF ~cn.exists THEN {[folder |-> fd, data |-> EmptyDict]}
    ELSE IF cfault = "read" THEN {[folder |-> fd, data |-> EmptyDict]}
    ELSE IF json_parses(cn.text)
         THEN {[folder |-> fd, data |-> json_load(cn.text)]}
    ELSE {[folder |-> r.folder,
           data   |-> IF truthy(r.ret) THEN r.ret.data ELSE EmptyDict] :
            r \in restore_data(fd, rfault)}

\* The write of DATA_FILE in save_data: the file it leaves.
write_canon(cn, data, fault) ==
    IF fault = "open" THEN cn
    ELSE IF fault = "write" THEN [exists |-> TRUE, text |-> Truncated]
    ELSE [exists |-> TRUE, text |-> json_dump(data)]

\* save_data with a backup_data that lets its failure through.
save_raises_on_backup_failure(path, wfault) == wfault # "none" \/ ~path.ok

\* Whether save_data raises to its caller.
save_raises(path, wfault) == wfault # "none"

\* save_data(data) at time t: the (folder, canonical file, snapshot path,
\* raised) results it can end with.
save_data(cn, fd, data, t, bfault, wfault) ==
    {[folder |-> b.folder,
      canon  |-> write_canon(cn, data, wfault),
      path   |-> b.path,
      raised |-> save_raises(b.path, wfault)] :
        b \in backup_data(fd, data, t, bfault)}

-----------------------------------------------------------------------------
(* The record of the last operation.                                       *)

Last(op) ==
    [op      |-> op,        \* which handler or call ran
     user    |-> "",        \* the owner of the view, the user acted for
     key     |-> "",        \* the shard type or reset choice
     amount  |-> 0,         \* the amount typed
     applied |-> FALSE,     \* whether the Store was mutated
     raised  |-> FALSE,     \* whether save_data raised
     path    |-> NoPath,    \* what the snapshot creation returned
     ret     |-> NoStore,   \* what restore_data returned
     data    |-> EmptyDict, \* the Store handed to a snapshot creation
     bfault  |-> "none",    \* the failing step of the backup, if any
     wfault  |-> "none",    \* the failing step of the canonical write
     actor   |-> "",        \* the user whose interaction changed the Store
     args    |-> << >>,     \* the arguments of a call of a pure function
     out     |-> << >>,     \* what that call returned
     exc     |-> "none"]    \* what the try block of the call raised

-----------------------------------------------------------------------------
(* bot.py: the /open flow                                                  *)

\* The buttons of ShardSelectFirstView that lead to ask_amount.
ShardButtons == {"ancient", "void", "sacred", "remnant"}
\* The buttons of PrimalRarityAmountView.
PrimalButtons == {"primal_legendary", "primal_mythical", "both"}

\* ask_amount with keys = [key] for every button.
primal_keys_literal(key) == <<key>>

\* keys of PrimalRarityAmountView.ask_amount, in the order of the loop.
primal_keys(key) ==
    IF key = "both" THEN <<"primal_legendary", "primal_mythical">> ELSE <<key>>

\* if user_id_str not in user_data: user_data[user_id_str] = {}
with_user(store, u) == IF u \in DOMAIN store THEN store ELSE DictSet(store, u, EmptyDict)

\* The loop left after its first round.
update_all_first_key(rec, keys, amount) ==
    IF keys = << >> THEN rec ELSE update_tracker(rec, Head(keys), amount)

\* The loop "for k in keys: update_tracker(user_data[user_id_str], k, amount)".
RECURSIVE update_all(_, _, _)
update_all(rec, keys, amount) ==
    IF keys = << >> THEN rec
    ELSE update_all(update_tracker(rec, Head(keys), amount), Tail(keys), amount)

\* The Store after the accepted amount is added to the keys of user u.
opened(store, u, keys, amount) ==
    LET s0 == with_user(store, u)
    IN  [s0 EXCEPT ![u] = update_all(s0[u], keys, amount)]

\* The part of both ask_amount handlers from the typed message on: the
\* amount is validated, the counters updated and the Store saved.
apply_amount(op, actor, owner, key, keys, amount, BF, WF) ==
    IF ~validate_amount(amount, 500)
    THEN /\ last' = [Last("invalid") EXCEPT !.amount = amount]
         /\ UNCHANGED <<user_data, canon, folder, now, views, nops, reminder_vars>>
    ELSE /\ nops < MaxOps
         /\ \E bf \in BF, wf \in WF :
              \E o \in save_data(canon, folder, opened(user_data, owner, keys, amount),
                                 now, bf, wf) :
                 /\ user_data' = opened(user_data, owner, keys, amount)
                 /\ canon' = o.canon
                 /\ folder' = o.folder
                 /\ last' = [Last(op) EXCEPT !.user = owner, !.key = key,
                                !.actor = actor,
                                !.amount = amount, !.applied = TRUE,
                                !.raised = o.raised, !.path = o.path,
                                !.data = opened(user_data, owner, keys, amount),
                                !.bfault = bf, !.wfault = wf]
         /\ nops' = nops + 1
         /\ UNCHANGED <<now, views, reminder_vars>>

\* A handler without the comparison of the user ids.
owner_check_any(actor, owner) == TRUE

\* The negation of "if interaction.user.id != self.user_id: ... return".
owner_check(actor, owner) == actor = owner

\* A press of a button by a user the view was not made for.
not_your_selection ==
    /\ last' = Last("denied")
    /\ UNCHANGED <<user_data, canon, folder, now, views, nops, prompts, reminder_vars>>

\* ShardSelectFirstView.ask_amount
ShardSelect_ask_amount(U, A, BF, WF) ==
    \E owner \in U, actor \in U :
        IF ~owner_check(actor, owner)
        THEN not_your_selection
        ELSE \E shard_type \in ShardButtons, amount \in A :
                /\ apply_amount("open", actor, owner, shard_type, <<shard_type>>,
                                amount, BF, WF)
                /\ UNCHANGED prompts

\* PrimalRarityAmountView.ask_amount
Primal_ask_amount(U, A, BF, WF) ==
    \E owner \in U, actor \in U :
        IF ~owner_check(actor, owner)
        THEN not_your_selection
        ELSE \E key \in PrimalButtons, amount \in A :
                /\ apply_amount("open", actor, owner, key, primal_keys(key),
                                amount, BF, WF)
                /\ UNCHANGED prompts

-----------------------------------------------------------------------------
(* bot.py: the /reset flow                                                 *)

\* The shard_type a ResetConfirmView is made with: None (here "reset_all"),
\* a ShardResetSelect value or a PrimalResetSelect value.
ResetChoices ==
    {"reset_all", "ancient", "void", "sacred", "remnant",
     "primal", "primal_legendary", "primal_mythical"}

\* /reset: a user whose record holds data is given the select menus; any
\* number of them, and of the ResetConfirmViews they lead to, may wait for
\* a press at once, so views holds only their owners.
reset(U) ==
    \E owner \in U :
        /\ owner \in DOMAIN user_data
        /\ user_data[owner] # EmptyDict
        /\ views' = views \cup {owner}
        /\ last' = Last("select")
        /\ UNCHANGED <<user_data, canon, folder, now, nops, prompts, reminder_vars>>

\* confirm_reset with "del self.user_data[self.user_id][self.shard_type]"
\* in its second branch.
reset_store_deletes_key(store, u, shard_type) ==
    IF shard_type = "primal"
    THEN [store EXCEPT ![u] =
            DictSet(DictSet(@, "primal_legendary", 0), "primal_mythical", 0)]
    ELSE IF shard_type # "reset_all"
    THEN [store EXCEPT ![u] = [k \in (DOMAIN @) \ {shard_type} |-> @[k]]]
    ELSE [store EXCEPT ![u] = EmptyDict]

\* confirm_reset with a third branch that sets every counter to 0.
reset_store_zeroes_all(store, u, shard_type) ==
    IF shard_type = "primal"
    THEN [store EXCEPT ![u] =
            DictSet(DictSet(@, "primal_legendary", 0), "primal_mythical", 0)]
    ELSE IF shard_type # "reset_all"
    THEN [store EXCEPT ![u] = DictSet(@, shard_type, 0)]
    ELSE [store EXCEPT ![u] = [k \in DOMAIN @ |-> 0]]

\* The Store after the three branches of confirm_reset.
reset_store(store, u, shard_type) ==
    IF shard_type = "primal"
    THEN [store EXCEPT ![u] =
            DictSet(DictSet(@, "primal_legendary", 0), "primal_mythical", 0)]
    ELSE IF shard_type # "reset_all"
    THEN [store EXCEPT ![u] = DictSet(@, shard_type, 0)]
    ELSE [store EXCEPT ![u] = EmptyDict]

\* ResetConfirmView.confirm_reset on a view of owner made with shard_type.
confirm_reset(U, BF, WF) ==
    \E owner \in views, actor \in U :
        IF ~owner_check(actor, owner)
        THEN not_your_selection
        ELSE /\ nops < MaxOps
             /\ \E shard_type \in ResetChoices, bf \in BF, wf \in WF :
                  \E o \in save_data(canon, folder,
                                     reset_store(user_data, owner, shard_type),
                                     now, bf, wf) :
                     /\ user_data' = reset_store(user_data, owner, shard_type)
                     /\ canon' = o.canon
                     /\ folder' = o.folder
                     /\ last' = [Last("reset") EXCEPT !.user = owner,
                                    !.actor = actor,
                                    !.key = shard_type, !.applied = TRUE,
                                    !.raised = o.raised, !.path = o.path,
                                    !.data = reset_store(user_data, owner, shard_type),
                                    !.bfault = bf, !.wfault = wf]
             /\ nops' = nops + 1
             /\ UNCHANGED <<now, views, prompts, reminder_vars>>

\* ResetConfirmView.cancel_reset
cancel_reset(U) ==
    \E owner \in views, actor \in U :
        /\ last' = Last(IF owner_check(actor, owner) THEN "cancel" ELSE "denied")
        /\ UNCHANGED <<user_data, canon, folder, now, views, nops, prompts, reminder_vars>>

-----------------------------------------------------------------------------
(* The process and the clock.                                              *)

\* The process ends and starts again: bot.py:73, user_data = load_data().
restart(CF, RF) ==
    \E cf \in CF, rf \in RF :
        \E o \in load_data(canon, folder, cf, rf) :
            /\ user_data' = o.data
            /\ folder' = o.folder
            /\ views' = {}
            /\ prompts' = << >>
            /\ last' = [Last("load") EXCEPT !.data = o.data]
            /\ UNCHANGED <<canon, now, nops, reminder_vars>>

tick ==
    /\ now < MaxTick
    /\ now' = now + 1
    /\ last' = Last("tick")
    /\ UNCHANGED <<user_data, canon, folder, views, nops, prompts, reminder_vars>>

-----------------------------------------------------------------------------
(* The bot on a fresh installation.                                        *)

\* No call of ask_amount waits for a message.
NoPrompts == prompts = << >>

\* reminder_loop has not been started.
NoReminders ==
    /\ reset_data = EmptyDict
    /\ sent_reminders = EmptyDict
    /\ channel = << >>
    /\ utcoffset = 0
    /\ utcnow = 0

NoFolder == [exists |-> FALSE, files |-> NoFiles]
NoCanon == [exists |-> FALSE, text |-> Truncated]

Init ==
    /\ canon = NoCanon
    /\ folder = NoFolder
    /\ user_data = EmptyDict
    /\ now = 0
    /\ views = {}
    /\ nops = 0
    /\ NoPrompts
    /\ NoReminders
    /\ last = Last("init")

Next ==
    \/ ShardSelect_ask_amount(Users, Amounts, NoFault, NoFault)
    \/ Primal_ask_amount(Users, Amounts, NoFault, NoFault)
    \/ reset(Users)
    \/ confirm_reset(Users, NoFault, NoFault)
    \/ cancel_reset(Users)
    \/ restart(NoFault, NoFault)
    \/ tick

\* Every step of every call works.
Spec == Init /\ [][Next]_vars

\* The users and amounts of the behaviours in which calls fail.
UsersIO == {"u1"}
AmountsIO == {1, 2}

\* With fewer than MAX_BACKUPS snapshots in the folder the cleanup of
\* backup_data returns before its os.remove: SpecFSIO below has it fail.
NextIO ==
    \/ ShardSelect_ask_amount(UsersIO, AmountsIO, SnapshotFaults, WriteFaults)
    \/ Primal_ask_amount(UsersIO, AmountsIO, SnapshotFaults, WriteFaults)
    \/ reset(UsersIO)
    \/ confirm_reset(UsersIO, SnapshotFaults, WriteFaults)
    \/ cancel_reset(UsersIO)
    \/ restart(ReadFaults, RestoreFaults)
    \/ tick

\* Any step of any call may fail.
SpecIO == Init /\ [][NextIO]_vars

-----------------------------------------------------------------------------
(* The persistence layer on its own: load_data, save_data and the calls of *)
(* backup_manager.py, made with sample Stores on folders that earlier      *)
(* runs left behind.                                                       *)

SampleStores ==
    {EmptyDict,
     [u \in {"u1"} |-> [c \in {"sacred"} |-> 12]],
     [u \in {"u1", "u2"} |->
        IF u = "u1" THEN [c \in {"sacred", "void"} |-> IF c = "sacred" THEN 15 ELSE 0]
        ELSE EmptyDict]}

\* The Store in the i-th snapshot of an earlier run.
EarlierStore(i) ==
    IF i % 2 = 1 THEN [u \in {"u1"} |-> [c \in {"sacred"} |-> i]]
    ELSE [u \in {"u2"} |-> [c \in {"ancient"} |-> i]]

\* A folder in which n calls of create_manual_backup, one a second, ended
\* before this run began; no folder for n = 0.
EarlierFolder(n) ==
    IF n = 0 THEN [exists |-> FALSE, files |-> NoFiles]
    ELSE [exists |-> TRUE,
          files  |-> [name \in {backup_filename(0 - i * TicksPerSecond, "manual") :
                                  i \in 1..n} |->
                        [mtime |-> name[1] * TicksPerSecond,
                         text  |-> json_dump(EarlierStore(0 - name[1]))]]]

\* How many snapshots earlier runs left: none, fewer than MAX_BACKUPS, more.
EarlierCounts == {0, MAX_BACKUPS - 1, MAX_BACKUPS + 5}

api_save_data(BF, WF) ==
    \E data \in SampleStores, bf \in BF, wf \in WF :
        \E o \in save_data(canon, folder, data, now, bf, wf) :
            /\ canon' = o.canon
            /\ folder' = o.folder
            /\ last' = [Last("save") EXCEPT !.data = data, !.path = o.path,
                           !.raised = o.raised, !.bfault = bf, !.wfault = wf]

api_load_data(CF, RF) ==
    \E cf \in CF, rf \in RF :
        \E o \in load_data(canon, folder, cf, rf) :
            /\ folder' = o.folder
            /\ last' = [Last("load") EXCEPT !.data = o.data, !.bfault = rf, !.wfault = cf]
            /\ UNCHANGED canon

api_backup_data(BF) ==
    \E data \in SampleStores, bf \in BF :
        \E o \in backup_data(folder, data, now, bf) :
            /\ folder' = o.folder
            /\ last' = [Last("backup") EXCEPT !.data = data, !.path = o.path,
                           !.bfault = bf, !.exc = o.exc,
                           !.raised = raises_past(o.exc)]
            /\ UNCHANGED canon

api_create_manual_backup(BF) ==
    \E data \in SampleStores, bf \in BF :
        \E o \in create_manual_backup(folder, data, "manual", now, bf) :
            /\ folder' = o.folder
            /\ last' = [Last("manual") EXCEPT !.data = data, !.path = o.path,
                           !.bfault = bf, !.exc = o.exc,
                           !.raised = raises_past(o.exc)]
            /\ UNCHANGED canon

api_cleanup_old_backups(BF) ==
    \E bf \in BF :
        \E f \in cleanup_old_backups(folder, bf) :
            /\ folder' = f
            /\ last' = [Last("cleanup") EXCEPT
                           !.bfault = bf, !.exc = cleanup_exc(folder, bf),
                           !.raised = raises_past(cleanup_exc(folder, bf))]
            /\ UNCHANGED canon

api_restore_data(RF) ==
    \E rf \in RF :
        \E o \in restore_data(folder, rf) :
            /\ folder' = o.folder
            /\ last' = [Last("restore") EXCEPT !.ret = o.ret, !.bfault = rf,
                           !.exc = o.exc, !.raised = raises_past(o.exc)]
            /\ UNCHANGED canon

\* One call of the persistence layer.
api_call(limit, A) ==
    /\ nops < limit
    /\ nops' = nops + 1
    /\ A
    /\ UNCHANGED <<user_data, now, views, prompts, reminder_vars>>

InitFS ==
    /\ canon = NoCanon
    /\ folder \in {EarlierFolder(n) : n \in EarlierCounts}
    /\ user_data = EmptyDict
    /\ now = 0
    /\ views = {}
    /\ nops = 0
    /\ NoPrompts
    /\ NoReminders
    /\ last = Last("init")

NextFS ==
    \/ api_call(MaxCalls, api_save_data(NoFault, NoFault))
    \/ api_call(MaxCalls, api_load_data(NoFault, NoFault))
    \/ api_call(MaxCalls, api_backup_data(NoFault))
    \/ api_call(MaxCalls, api_create_manual_backup(NoFault))
    \/ api_call(MaxCalls, api_cleanup_old_backups(NoFault))
    \/ api_call(MaxCalls, api_restore_data(NoFault))
    \/ tick

SpecFS == InitFS /\ [][NextFS]_vars

NextFSIO ==
    \/ api_call(MaxCallsIO, api_save_data(BackupFaults, WriteFaults))
    \/ api_call(MaxCallsIO, api_load_data(ReadFaults, RestoreFaults))
    \/ api_call(MaxCallsIO, api_backup_data(BackupFaults))
    \/ api_call(MaxCallsIO, api_create_manual_backup(SnapshotFaults))
    \/ api_call(MaxCallsIO, api_cleanup_old_backups(CleanupFaults))
    \/ api_call(MaxCallsIO, api_restore_data(RestoreFaults))
    \/ tick

SpecFSIO == InitFS /\ [][NextFSIO]_vars

-----------------------------------------------------------------------------
(* The bot started on the data file of an earlier run, or on none, and     *)
(* given the amounts on both sides of the bounds of validate_amount.       *)

\* The Stores the bot starts on: the empty one of a fresh installation and
\* one that an earlier run saved.
LoadedStores ==
    {EmptyDict,
     [u \in {"u1", "u2"} |->
        IF u = "u1"
        THEN [c \in {"sacred", "primal_legendary"} |-> IF c = "sacred" THEN 12 ELSE 3]
        ELSE [c \in {"ancient"} |-> 200]]}

AmountsLoaded == {0, 1, 500, 501}

\* bot.py:73 done: user_data = load_data() on the file the earlier run
\* wrote, or on no file.
InitLoaded ==
    /\ \E store \in LoadedStores :
         /\ user_data = store
         /\ canon = IF store = EmptyDict THEN NoCanon
                    ELSE [exists |-> TRUE, text |-> json_dump(store)]
         /\ folder = IF store = EmptyDict THEN NoFolder ELSE EarlierFolder(1)
    /\ now = 0
    /\ views = {}
    /\ nops = 0
    /\ NoPrompts
    /\ NoReminders
    /\ last = Last("init")

NextLoaded ==
    \/ ShardSelect_ask_amount(Users, AmountsLoaded, NoFault, NoFault)
    \/ Primal_ask_amount(Users, AmountsLoaded, NoFault, NoFault)
    \/ reset(Users)
    \/ confirm_reset(Users, NoFault, NoFault)
    \/ cancel_reset(Users)
    \/ restart(NoFault, NoFault)
    \/ tick

SpecLoaded == InitLoaded /\ [][NextLoaded]_vars

-----------------------------------------------------------------------------
(* verify_backup_integrity on a folder that also holds files json.dump did *)
(* not write.                                                              *)

\* The snapshot of an earlier run, and two files put into the folder by
\* hand: a JSON array and an object whose value is a number.
ForeignFolder ==
    write_file(write_file(EarlierFolder(1),
                          backup_filename(0 - 2 * TicksPerSecond, "array"),
                          ArrayText, 0 - 2 * TicksPerSecond),
               backup_filename(0 - 3 * TicksPerSecond, "flat"),
               FlatText, 0 - 3 * TicksPerSecond)

\* The names verify_backup_integrity is called with: those in the folder
\* and one that is not.
VerifyNames == (DOMAIN folder.files) \cup {backup_filename(0, "absent")}

api_verify_backup_integrity(VF) ==
    \E filename \in VerifyNames, vf \in VF :
        /\ last' = [Last("verify") EXCEPT
                       !.args = <<filename>>,
                       !.bfault = vf,
                       !.out = verify_backup_integrity(folder, filename, vf),
                       !.exc = verify_exc(folder, filename, vf),
                       !.raised = raises_past(verify_exc(folder, filename, vf))]
        /\ UNCHANGED <<canon, folder>>

InitVerify ==
    /\ canon = NoCanon
    /\ folder \in {NoFolder, ForeignFolder}
    /\ user_data = EmptyDict
    /\ now = 0
    /\ views = {}
    /\ nops = 0
    /\ NoPrompts
    /\ NoReminders
    /\ last = Last("init")

NextVerify ==
    \/ api_call(MaxCalls, api_backup_data(NoFault))
    \/ api_call(MaxCalls, api_create_manual_backup(NoFault))
    \/ api_call(MaxCalls, api_verify_backup_integrity(VerifyFaults))
    \/ tick

SpecVerify == InitVerify /\ [][NextVerify]_vars

-----------------------------------------------------------------------------
(* Every function of backup_manager.py, any step of any call failing.      *)

api_list_backups(LF) ==
    \E lf \in LF :
        \E o \in list_backups(folder, lf) :
            /\ folder' = o.folder
            /\ last' = [Last("list") EXCEPT !.out = o.ret, !.bfault = lf,
                           !.exc = o.exc, !.raised = raises_past(o.exc)]
            /\ UNCHANGED canon

api_restore_from_specific_backup(RF) ==
    \E filename \in VerifyNames, rf \in RF :
        LET o == restore_from_specific_backup(folder, filename, rf)
        IN  /\ last' = [Last("specific") EXCEPT
                           !.args = <<filename>>, !.ret = o.ret, !.bfault = rf,
                           !.exc = o.exc, !.raised = raises_past(o.exc)]
            /\ UNCHANGED <<canon, folder>>

NextBM ==
    \/ api_call(MaxCallsIO, api_backup_data(BackupFaults))
    \/ api_call(MaxCallsIO, api_create_manual_backup(SnapshotFaults))
    \/ api_call(MaxCallsIO, api_cleanup_old_backups(CleanupFaults))
    \/ api_call(MaxCallsIO, api_restore_data(RestoreFaults))
    \/ api_call(MaxCallsIO, api_restore_from_specific_backup(SpecificFaults))
    \/ api_call(MaxCallsIO, api_list_backups(ListFaults))
    \/ api_call(MaxCallsIO, api_verify_backup_integrity(VerifyFaults))
    \/ tick

SpecBM == InitFS /\ [][NextBM]_vars

-----------------------------------------------------------------------------
(* Snapshots written within one tick of the modification-time clock: the   *)
(* clock stands still while create_manual_backup is called with different  *)
(* suffixes and backup_data is called.                                     *)

\* The suffixes create_manual_backup is called with, MAX_BACKUPS of them.
TieSuffixes ==
    {"s01", "s02", "s03", "s04", "s05", "s06", "s07", "s08", "s09", "s10"}

create_suffixed_backup ==
    \E suffix \in TieSuffixes :
        \E o \in create_manual_backup(folder, EarlierStore(1), suffix, now, "none") :
            /\ folder' = o.folder
            /\ last' = [Last("manual") EXCEPT !.data = EarlierStore(1),
                                              !.path = o.path]
            /\ UNCHANGED <<user_data, canon, now, views, nops, prompts,
                           reminder_vars>>

backup_in_same_tick ==
    \E o \in backup_data(folder, EarlierStore(2), now, "none") :
        /\ folder' = o.folder
        /\ last' = [Last("backup") EXCEPT !.data = EarlierStore(2),
                                          !.path = o.path]
        /\ UNCHANGED <<user_data, canon, now, views, nops, prompts,
                       reminder_vars>>

NextTies ==
    \/ create_suffixed_backup
    \/ backup_in_same_tick

SpecTies == Init /\ [][NextTies]_vars

-----------------------------------------------------------------------------
(* calculate_mercy_chance called on counts around the thresholds.          *)

MaxCount == 26

\* (current_count, mercy_start, rate_per_summon)
ChanceArgs == (0..MaxCount) \X {0, 12, 24} \X {0 - 1, 0, 1, 2, 10}

InitChance ==
    /\ canon = NoCanon
    /\ folder = NoFolder
    /\ user_data = EmptyDict
    /\ now = 0
    /\ views = {}
    /\ nops = 0
    /\ NoPrompts
    /\ NoReminders
    /\ \E a \in ChanceArgs : last = [Last("init") EXCEPT !.args = a]

call_calculate_mercy_chance ==
    /\ last.op = "init"
    /\ last' = [Last("chance") EXCEPT
                   !.args = last.args,
                   !.out = calculate_mercy_chance(last.args[1], last.args[2],
                                                  last.args[3])]
    /\ UNCHANGED <<user_data, canon, folder, now, views, nops, prompts, reminder_vars>>

SpecChance == InitChance /\ [][call_calculate_mercy_chance]_vars

-----------------------------------------------------------------------------
(* /status and get_status on the records of a loaded Store.                *)

\* The keys of the records: the valid shard types and one that is none.
StatusKeys == VALID_SHARD_TYPES \cup {"celestial"}

\* Counts below, at and above the thresholds of mercy_rules.
StatusCounts == {0, 1, 11, 12, 15, 24, 75, 76, 199, 200, 201}

\* The records of at most two keys.
StatusRecords ==
    UNION {[ks -> StatusCounts] : ks \in {x \in SUBSET StatusKeys : Cardinality(x) <= 2}}

InitStatus ==
    /\ \E rec \in StatusRecords :
         /\ user_data = [u \in {"u1"} |-> rec]
         /\ canon = [exists |-> TRUE, text |-> json_dump([u \in {"u1"} |-> rec])]
    /\ folder = NoFolder
    /\ now = 0
    /\ views = {}
    /\ nops = 0
    /\ NoPrompts
    /\ NoReminders
    /\ last = Last("init")

\* What /status sends when the user has no record or an empty one.
NoDataFound == [text |-> "No data found", sections |-> {}]

\* What /status sends to user_id.
status_reply(store, user_id) ==
    IF user_id \notin DOMAIN store \/ store[user_id] = EmptyDict
    THEN NoDataFound
    ELSE get_status(store[user_id])

\* /status
status(U) ==
    \E user_id \in U :
        /\ last' = [Last("status") EXCEPT
                       !.user = user_id,
                       !.out = status_reply(user_data, user_id)]
        /\ UNCHANGED <<user_data, canon, folder, now, views, nops, prompts, reminder_vars>>

\* get_status(data) called on the record of a user.
call_get_status(U) ==
    \E user_id \in U \cap DOMAIN user_data :
        /\ last' = [Last("get_status") EXCEPT
                       !.user = user_id,
                       !.data = user_data[user_id],
                       !.out = get_status(user_data[user_id])]
        /\ UNCHANGED <<user_data, canon, folder, now, views, nops, prompts, reminder_vars>>

NextStatus ==
    \/ status(Users)
    \/ call_get_status(Users)

SpecStatus == InitStatus /\ [][NextStatus]_vars

\* get_detailed_status(data) called on the record of a user.
call_get_detailed_status(U) ==
    \E user_id \in U \cap DOMAIN user_data :
        /\ last' = [Last("get_detailed_status") EXCEPT
                       !.user = user_id,
                       !.data = user_data[user_id],
                       !.out = get_detailed_status(user_data[user_id])]
        /\ UNCHANGED <<user_data, canon, folder, now, views, nops, prompts, reminder_vars>>

NextDetailed ==
    \/ call_get_status(Users)
    \/ call_get_detailed_status(Users)

SpecDetailed == InitStatus /\ [][NextDetailed]_vars

-----------------------------------------------------------------------------
(* The reminder bot code of bot.py.  Datetimes and time stamps are counted *)
(* in half minutes.  A naive datetime is a number of half minutes since    *)
(* 00:00 of a Monday; a time stamp is the number of half minutes since     *)
(* 00:00 UTC of that Monday.                                               *)

\* timedelta(days=.., hours=.., minutes=..)
timedelta(days, hours, minutes) == ((days * 24 + hours) * 60 + minutes) * 2

\* REMINDER_TIMES, in the order of the dictionary.
REMINDER_TIMES ==
    <<[event |-> "Doom Tower", advance_time |-> timedelta(0, 48, 0)],
      [event |-> "Cursed City", advance_time |-> timedelta(0, 48, 0)],
      [event |-> "Clan Quests", advance_time |-> timedelta(0, 12, 0)],
      [event |-> "Clan vs Clan", advance_time |-> timedelta(0, 12, 0)],
      [event |-> "Hydra", advance_time |-> timedelta(0, 12, 0)],
      [event |-> "Chimera", advance_time |-> timedelta(0, 12, 0)],
      [event |-> "Siege", advance_time |-> timedelta(0, 24, 0)]>>

FIXED_WEEKLY ==
    ("Clan Quests" :> [weekday |-> 0, hour |-> 8])
        @@ ("Hydra" :> [weekday |-> 2, hour |-> 10])
        @@ ("Chimera" :> [weekday |-> 3, hour |-> 11])

\* ROTATING_EVENTS: the period of each rotating event in days.
ROTATING_EVENTS ==
    ("Doom Tower" :> 30) @@ ("Cursed City" :> 30) @@ ("Siege" :> 14)
        @@ ("Clan vs Clan" :> 14)

\* datetime.utcfromtimestamp(ts): the naive datetime of the UTC wall clock.
utcfromtimestamp(ts) == ts

\* dt.timestamp() of a naive datetime dt: Python reads dt as a wall clock
\* time of the local time zone of the process, which is utcoffset ahead of
\* UTC.
datetime_timestamp(dt) == dt - utcoffset

\* The reset of a FIXED_WEEKLY event as reminder_loop computes it at nw:
\* the next such weekday, today included, and a week later when that
\* moment has passed.
fixed_reset_dt(event, nw) ==
    LET day == FIXED_WEEKLY[event].weekday
        hour == FIXED_WEEKLY[event].hour
        today == nw \div timedelta(1, 0, 0)
        days_ahead == (day - (today % 7)) % 7
        reset_dt == timedelta(today + days_ahead, 0, 0) + timedelta(0, hour, 0)
    IN  IF nw > reset_dt THEN reset_dt + timedelta(7, 0, 0) ELSE reset_dt

\* One round of the loop over REMINDER_TIMES, on the state st of
\* reset_data, sent_reminders and the channel.  A message in the channel
\* is written with the reset it announces, which the text sent leaves out.
reminder_event(st, event, advance_time, nw) ==
    IF event \notin DOMAIN FIXED_WEEKLY /\ event \notin DOMAIN st.reset_data
    THEN st
    ELSE
    LET reset_dt == IF event \in DOMAIN FIXED_WEEKLY
                    THEN fixed_reset_dt(event, nw)
                    ELSE utcfromtimestamp(st.reset_data[event])
        reminder_time == reset_dt - advance_time
        key == <<event, reset_dt>>
        st1 == IF /\ reminder_time <= nw
                  /\ nw < reminder_time + timedelta(0, 0, 1)
                  /\ key \notin DOMAIN st.sent_reminders
               THEN [st EXCEPT
                        !.channel = Append(@, [event |-> event,
                                               reset_dt |-> reset_dt]),
                        !.sent_reminders = DictSet(@, key, datetime_timestamp(nw))]
               ELSE st
    IN  IF event \in DOMAIN ROTATING_EVENTS /\ nw > reset_dt
        THEN LET next_dt == reset_dt + timedelta(ROTATING_EVENTS[event], 0, 0)
             IN  [st1 EXCEPT !.reset_data = DictSet(@, event, datetime_timestamp(next_dt))]
        ELSE st1

RECURSIVE reminder_events(_, _, _)
reminder_events(st, todo, nw) ==
    IF todo = << >> THEN st
    ELSE reminder_events(reminder_event(st, Head(todo).event,
                                        Head(todo).advance_time, nw),
                         Tail(todo), nw)

\* "Cleanup old reminders older than 3 days"
cleanup_reminders(sent, nw) ==
    LET expiration == datetime_timestamp(nw) - timedelta(3, 0, 0)
    IN  [key \in {k \in DOMAIN sent : ~(sent[k] < expiration)} |-> sent[key]]

\* The rounds of reminder_loop in one run of the process.
MaxLoops == 4

\* What the process sleeps between two rounds: the minute of tasks.loop,
\* half a minute less or more, or more than three days of suspension.
Sleeps == {1, 2, 3, timedelta(3, 0, 1)}

\* The offsets of the local time zone of the process: UTC-4, UTC, UTC+1.
UtcOffsets == {0 - timedelta(0, 4, 0), 0, timedelta(0, 1, 0)}

\* The process starts on a Sunday at 19:59 UTC, ten weeks after the Monday
\* the time stamps are counted from.
StartTime == timedelta(69, 19, 59)

\* What reset_data.json holds for a rotating event when the process
\* starts: a reset whose reminder is due in a minute, a reset that has
\* just passed, or one that passed more than two periods ago.
StartResets(event) ==
    LET advance_time ==
            REMINDER_TIMES[CHOOSE i \in DOMAIN REMINDER_TIMES :
                              REMINDER_TIMES[i].event = event].advance_time
    IN  {StartTime + advance_time + timedelta(0, 0, 1),
         StartTime - 1,
         StartTime - timedelta(2 * ROTATING_EVENTS[event], 0, 1)}

InitReminder ==
    /\ canon = NoCanon
    /\ folder = NoFolder
    /\ user_data = EmptyDict
    /\ now = 0
    /\ views = {}
    /\ nops = 0
    /\ NoPrompts
    /\ utcoffset \in UtcOffsets
    /\ utcnow = StartTime
    /\ \E data \in [DOMAIN ROTATING_EVENTS ->
                       UNION {StartResets(e) : e \in DOMAIN ROTATING_EVENTS}] :
          /\ \A e \in DOMAIN data : data[e] \in StartResets(e)
          /\ reset_data = data
    /\ sent_reminders = EmptyDict
    /\ channel = << >>
    /\ last = Last("init")

\* A round of reminder_loop that finds the guild, the channel and the role.
reminder_loop(S) ==
    \E sleep \in S :
        /\ nops < MaxLoops
        /\ nops' = nops + 1
        /\ utcnow' = utcnow + sleep
        /\ LET st == reminder_events([reset_data |-> reset_data,
                                      sent_reminders |-> sent_reminders,
                                      channel |-> channel],
                                     REMINDER_TIMES, utcnow')
           IN  /\ reset_data' = st.reset_data
               /\ channel' = st.channel
               /\ sent_reminders' = cleanup_reminders(st.sent_reminders, utcnow')
        /\ last' = Last("reminder_loop")
        /\ UNCHANGED <<user_data, canon, folder, now, views, prompts, utcoffset>>

\* A round that returns at "if not bot.guilds" or "if not channel or not
\* role".
reminder_loop_returns(S) ==
    \E sleep \in S :
        /\ nops < MaxLoops
        /\ nops' = nops + 1
        /\ utcnow' = utcnow + sleep
        /\ last' = Last("reminder_loop_returns")
        /\ UNCHANGED <<user_data, canon, folder, now, views, prompts,
                       reset_data, sent_reminders, channel, utcoffset>>

NextReminder ==
    \/ reminder_loop(Sleeps)
    \/ reminder_loop_returns(Sleeps)

SpecReminder == InitReminder /\ [][NextReminder]_vars

-----------------------------------------------------------------------------
(* The /open and /reset flows as asyncio runs them: a handler runs without *)
(* interruption from one await to the next, and the handlers of other      *)
(* interactions run while it waits.  ask_amount waits in bot.wait_for; the *)
(* lines from int(msg.content) to save_data(user_data) hold no await, nor  *)
(* do those of confirm_reset before its save_data.                         *)

\* Calls of ask_amount per behaviour.
MaxPrompts == 2

\* The channels the interactions and messages come from.
Channels == {"general", "shards"}

\* What users type: a text that is no number and two that are.
Contents == {"abc", "0", "1"}

\* str.isdigit()
isdigit(content) == content \in {"0", "1"}

\* int(msg.content)
int(content) ==
    CASE content = "0" -> 0
      [] content = "1" -> 1

\* The check that ask_amount hands to bot.wait_for, for message m.
check(prompt, m) ==
    /\ m.author = prompt.author
    /\ m.channel = prompt.channel
    /\ isdigit(m.content)

\* A call of ask_amount that has sent its request for the amount and waits
\* in bot.wait_for("message", check=check, timeout=30).
Waiting(owner, author, chan, key, keys) ==
    [owner   |-> owner,     \* self.user_id
     author  |-> author,    \* interaction.user.id
     channel |-> chan,      \* interaction.channel
     key     |-> key,       \* the button
     keys    |-> keys,      \* the counters to update
     state   |-> "waiting", \* "waiting", "message" (wait_for returned), "done"
     content |-> "",        \* msg.content
     msg     |-> 0,         \* which message wait_for returned
     result  |-> ""]        \* "applied", "invalid", "failed", "timeout"

\* ask_amount up to its bot.wait_for, for the buttons of a view.
wait_for_amount(U, Buttons) ==
    \E owner \in U, actor \in U :
        IF ~owner_check(actor, owner)
        THEN not_your_selection
        ELSE /\ Len(prompts) < MaxPrompts
             /\ \E key \in Buttons, chan \in Channels :
                  prompts' = Append(prompts,
                      Waiting(owner, actor, chan, key,
                              IF key \in PrimalButtons THEN primal_keys(key)
                              ELSE <<key>>))
             /\ last' = Last("prompt")
             /\ UNCHANGED <<user_data, canon, folder, now, views, nops,
                            reminder_vars>>

\* ShardSelectFirstView.ask_amount, lines 135-150.
ShardSelect_wait_for(U, Buttons) == wait_for_amount(U, Buttons \cap ShardButtons)

\* PrimalRarityAmountView.ask_amount, lines 197-219.
Primal_wait_for(U, Buttons) == wait_for_amount(U, Buttons \cap PrimalButtons)

\* The number of the next message that a wait_for returns.
next_msg ==
    1 + Cardinality({prompts[i].msg : i \in DOMAIN prompts} \ {0})

\* A user sends a message.  discord.py hands the message event to every
\* listener that bot.wait_for registered: each one whose check passes gets
\* the message and is taken off the list.
on_message(U, C) ==
    \E author \in U, chan \in Channels, content \in C :
        LET m == [author |-> author, channel |-> chan, content |-> content]
        IN  /\ \E i \in DOMAIN prompts :
                  prompts[i].state = "waiting" /\ check(prompts[i], m)
            /\ prompts' =
                  [i \in DOMAIN prompts |->
                      IF prompts[i].state = "waiting" /\ check(prompts[i], m)
                      THEN [prompts[i] EXCEPT !.state = "message",
                                              !.content = content,
                                              !.msg = next_msg]
                      ELSE prompts[i]]
            /\ last' = Last("message")
            /\ UNCHANGED <<user_data, canon, folder, now, views, nops,
                           reminder_vars>>

\* ask_amount from the return of bot.wait_for to the end of save_data, or
\* to the return after the "Invalid amount" reply.
ask_amount_resume(BF, WF) ==
    \E i \in DOMAIN prompts :
        /\ prompts[i].state = "message"
        /\ apply_amount("open", prompts[i].author, prompts[i].owner,
                        prompts[i].key, prompts[i].keys,
                        int(prompts[i].content), BF, WF)
        /\ prompts' = [prompts EXCEPT
                          ![i].state = "done",
                          ![i].result = IF last'.op = "invalid" THEN "invalid"
                                        ELSE IF last'.raised THEN "failed"
                                        ELSE "applied"]

\* bot.wait_for raises asyncio.TimeoutError after 30 seconds without a
\* message that passes the check: the except clause sends "No valid amount
\* received".
ask_amount_timeout ==
    \E i \in DOMAIN prompts :
        /\ prompts[i].state = "waiting"
        /\ prompts' = [prompts EXCEPT ![i].state = "done", ![i].result = "timeout"]
        /\ last' = Last("timeout")
        /\ UNCHANGED <<user_data, canon, folder, now, views, nops,
                       reminder_vars>>

\* The clock stands still in these behaviours, and of the buttons three are
\* pressed.
NextAsync ==
    \/ ShardSelect_wait_for(Users, {"ancient"})
    \/ Primal_wait_for(Users, {"primal_legendary", "both"})
    \/ on_message(Users, Contents)
    \/ ask_amount_resume(NoFault, NoFault)
    \/ ask_amount_timeout
    \/ reset(Users)
    \/ confirm_reset(Users, NoFault, NoFault)
    \/ cancel_reset(Users)

SpecAsync == Init /\ [][NextAsync]_vars

-----------------------------------------------------------------------------
(* Properties.                                                             *)

Min(a, b) == IF a <= b THEN a ELSE b

\* The keys an /open step of key k updates.
KeysOf(k) == IF k = "both" THEN {"primal_legendary", "primal_mythical"} ELSE {k}

\* The record of user u in a Store, empty if the Store has none.
RecordOf(store, u) == DictGet(store, u, EmptyDict)

\* C1: an accepted /open amount leaves each updated counter at its previous
\* value (0 if the key was absent) plus the amount, and every other key of
\* the record as it was.
C1_UpdateAddsAmount ==
    [][(last'.op = "open" /\ last'.applied) =>
        LET old == RecordOf(user_data, last'.user)
            new == RecordOf(user_data', last'.user)
        IN  /\ DOMAIN new = (DOMAIN old) \cup KeysOf(last'.key)
            /\ \A k \in KeysOf(last'.key) :
                   new[k] = DictGet(old, k, 0) + last'.amount
            /\ \A k \in (DOMAIN old) \ KeysOf(last'.key) : new[k] = old[k]]_vars

\* C1, reached: an amount was added to a counter that already held a
\* positive count, in a record with another key.
C1_Witness ==
    /\ last.op = "open" /\ last.applied /\ last.key = "primal_legendary"
    /\ user_data[last.user]["primal_legendary"] > last.amount
    /\ "primal_mythical" \in DOMAIN user_data[last.user]

\* The snapshots no snapshot of the folder is more recently modified than.
Newest(fd) ==
    {f \in DOMAIN fd.files :
        \A g \in DOMAIN fd.files : fd.files[g].mtime <= fd.files[f].mtime}

\* C2: load_data returns the empty Store when the canonical file is absent,
\* and the contents of the most recently modified backup when the file is
\* there, does not parse and some backup parses (here: when, besides, no
\* step of the load fails).
C2_LoadReturnsLatestBackup ==
    (last.op = "load" /\ last.bfault = "none" /\ last.wfault = "none") =>
        /\ ~canon.exists => last.data = EmptyDict
        /\ ( /\ canon.exists /\ ~json_parses(canon.text)
             /\ \E f \in backup_files(folder) : json_parses(folder.files[f].text) )
           => \E f \in Newest(folder) :
                 /\ json_parses(folder.files[f].text)
                 /\ last.data = json_load(folder.files[f].text)

\* C3: the snapshot a save writes holds what the canonical file held before
\* the save, and the canonical file holds the new data after it.
C3_SnapshotHoldsPriorState ==
    [][(last'.op = "save" /\ last'.path.ok /\ ~last'.raised /\ canon.exists
        /\ last'.path.name \in backup_files(folder')) =>
        /\ folder'.files[last'.path.name].text = canon.text
        /\ canon'.text = json_dump(last'.data)]_vars

\* C4: save_data raises exactly when its write of the canonical file fails;
\* whatever step of the backup fails, a canonical write that does not fail
\* leaves the file holding the new data.
C4_SaveRaisesOnlyOnCanonWrite ==
    last.op = "save" =>
        /\ last.raised <=> last.wfault # "none"
        /\ last.wfault = "none" =>
              canon = [exists |-> TRUE, text |-> json_dump(last.data)]

\* C4, reached: the backup failed, save_data returned normally and the
\* canonical file holds the new data.
C4_Witness ==
    /\ last.op = "save" /\ ~last.path.ok /\ ~last.raised
    /\ last.data # EmptyDict
    /\ canon.exists /\ canon.text = json_dump(last.data)

\* C5: after every user action that changed the Store the canonical file
\* holds the Store, also when the save of that action failed.
C5_CanonEqualsStore ==
    (last.op \in {"open", "reset"} /\ last.applied) =>
        /\ canon.exists
        /\ canon.text = json_dump(user_data)

\* C6: after a snapshot creation returned a path, automatic or manual, the
\* backup folder holds at most MAX_BACKUPS snapshots.
C6_CreationKeepsRetention ==
    (last.op \in {"backup", "manual", "save"} /\ last.path.ok) =>
        Cardinality(backup_files(folder)) <= MAX_BACKUPS

\* C7: cleanup_old_backups leaves min(MAX_BACKUPS, T) of the T snapshots,
\* untouched, and none of them is older than a snapshot it deleted.
C7_CleanupKeepsNewest ==
    [][last'.op = "cleanup" =>
        LET before == backup_files(folder)
            after  == backup_files(folder')
        IN  /\ after \subseteq before
            /\ Cardinality(after) = Min(MAX_BACKUPS, Cardinality(before))
            /\ \A k \in after : folder'.files[k] = folder.files[k]
            /\ \A k \in after, d \in before \ after :
                   folder.files[k].mtime >= folder.files[d].mtime]_vars

\* C7, reached: a cleanup took a folder of more than MAX_BACKUPS snapshots
\* down to MAX_BACKUPS.
C7_Witness ==
    /\ last.op = "cleanup" /\ nops = 1
    /\ Cardinality(backup_files(folder)) = MAX_BACKUPS

\* C8: restore_data called right after a backup_data(data) that returned a
\* path returns data.
C8_RestoreAfterBackup ==
    [][(last.op = "backup" /\ last.path.ok /\ last'.op = "restore") =>
        last'.ret = Loaded(last.data)]_vars

\* The snapshots of the greatest modification time that parse.
ReadableLatest(fd) == {f \in Newest(fd) : json_parses(fd.files[f].text)}

\* C9 as claimed: restore_data returns None exactly when the folder holds
\* no snapshot, and otherwise the content of a snapshot of the greatest
\* modification time.
C9_NoneExactlyWhenNoSnapshot ==
    last.op = "restore" =>
        /\ ~last.ret.ok <=> backup_files(folder) = {}
        /\ backup_files(folder) # {} =>
              \E f \in ReadableLatest(folder) :
                 last.ret = Loaded(json_load(folder.files[f].text))

\* C9 as amended: restore_data returns None when the folder holds no
\* snapshot, and with snapshots in the folder only when a step of the call
\* fails or a snapshot of the greatest modification time does not parse;
\* what it returns otherwise is the content of a snapshot of the greatest
\* modification time.
C9_NoneWhenNoSnapshotOrUnreadable ==
    last.op = "restore" =>
        /\ backup_files(folder) = {} => ~last.ret.ok
        /\ last.ret.ok =>
              \E f \in ReadableLatest(folder) :
                 last.ret = Loaded(json_load(folder.files[f].text))
        /\ (~last.ret.ok /\ backup_files(folder) # {}) =>
              \/ last.bfault # "none"
              \/ ReadableLatest(folder) # Newest(folder)

\* C9, reached: every step of restore_data worked, the folder holds older
\* snapshots that parse, the newest does not, and None was returned.
C9_Witness ==
    /\ last.op = "restore" /\ last.bfault = "none" /\ ~last.ret.ok
    /\ ReadableLatest(folder) = {}
    /\ \E f \in backup_files(folder) : json_parses(folder.files[f].text)

\* The snapshots in the folder before and after a step.
Kept == backup_files(folder) \cap backup_files(folder')

\* C10 as claimed: no step changes the content of a snapshot that is in the
\* folder before and after it.
C10_SnapshotNeverModified ==
    [][\A n \in Kept : folder'.files[n].text = folder.files[n].text]_vars

\* C10 as amended: a snapshot in the folder before and after a step is
\* changed only by a snapshot creation that writes its own file name, the
\* one of the same second and suffix; loads, restores and prunes change no
\* snapshot they leave in the folder.
C10_SnapshotModifiedOnlyByRewrite ==
    [][\A n \in Kept :
        folder'.files[n] # folder.files[n] =>
            /\ last'.op \in {"backup", "manual", "save"}
            /\ n = backup_filename(now, IF last'.op = "manual" THEN "manual" ELSE "")]_vars

\* C10, reached: a prune deleted snapshots from a folder that holds a
\* snapshot of this run.
C10_Witness ==
    /\ last.op = "cleanup"
    /\ Cardinality(backup_files(folder)) = MAX_BACKUPS
    /\ \E n \in backup_files(folder) : n[1] >= 0

\* The counters a confirmed reset made with shard_type sets or deletes.
ResetKeys(shard_type) ==
    IF shard_type = "primal" THEN {"primal_legendary", "primal_mythical"}
    ELSE IF shard_type = "reset_all" THEN VALID_SHARD_TYPES
    ELSE {shard_type}

\* C11: from one state to the next a counter of a user becomes smaller, or
\* disappears, only by a confirmed reset of that user that names the
\* counter: its category, "primal" for the two primal counters, or reset-all.
C11_CountersNeverDecrease ==
    [][\A u \in DOMAIN user_data : \A k \in DOMAIN user_data[u] :
          ( \/ u \notin DOMAIN user_data'
            \/ k \notin DOMAIN user_data'[u]
            \/ user_data'[u][k] < user_data[u][k] )
          => /\ last'.op = "reset"
             /\ last'.user = u
             /\ k \in ResetKeys(last'.key)]_vars

\* C11, reached: a counter that stood at 12 was reset and then counted up
\* again, the other counter of the record standing as it was.
C11_Witness ==
    /\ last.op = "open" /\ last.user = "u1" /\ last.key = "sacred"
    /\ "u1" \in DOMAIN user_data
    /\ {"sacred", "primal_legendary"} \subseteq DOMAIN user_data["u1"]
    /\ user_data["u1"]["sacred"] = last.amount
    /\ user_data["u1"]["primal_legendary"] = 3

\* C12: an amount that /open adds to the Store lies in 1..500, and a typed
\* amount that is rejected lies outside 1..500 and leaves the Store, the
\* canonical file and the backup folder as they were.
C12_AppliedAmountInRange ==
    [][/\ last'.op = "open" => (1 <= last'.amount /\ last'.amount <= 500)
       /\ last'.op = "invalid" =>
             /\ ~(1 <= last'.amount /\ last'.amount <= 500)
             /\ UNCHANGED <<user_data, canon, folder>>]_vars

\* C12, reached: 500 was added to the sacred counter of 12, and then 501
\* was typed and rejected.
C12_Witness ==
    /\ last.op = "invalid" /\ last.amount = 501
    /\ "u1" \in DOMAIN user_data /\ "sacred" \in DOMAIN user_data["u1"]
    /\ user_data["u1"]["sacred"] = 512
    /\ canon.text = json_dump(user_data)

\* C13: calculate_mercy_chance(count, start, rate) is 0 for count < start
\* and (count - start) * rate for count >= start, and for a rate that is
\* not negative no smaller count gives a greater value.
C13_MercyChance ==
    last.op = "chance" =>
        LET count == last.args[1]
            start == last.args[2]
            rate  == last.args[3]
        IN  /\ count < start => last.out = 0
            /\ count >= start => last.out = (count - start) * rate
            /\ rate >= 0 =>
                  \A c \in 0..count :
                     calculate_mercy_chance(c, start, rate) <= last.out

\* C13, reached: count 15 with threshold 12 and rate 2 gave 6.
C13_Witness ==
    /\ last.op = "chance" /\ last.args = <<15, 12, 2>> /\ last.out = 6

\* The line that reports count against the rule of a tier.
ExpectedLine(rarity, rule, count) ==
    IF count >= rule.start
    THEN [rarity |-> rarity, active |-> TRUE,
          numbers |-> <<(count - rule.start) * rule.rate>>]
    ELSE [rarity |-> rarity, active |-> FALSE,
          numbers |-> <<rule.start - count, count, rule.start>>]

\* The section that reports the tiers of category k at the count of key k.
ExpectedSection(data, k) ==
    [title |-> title(k),
     total |-> data[k],
     lines |-> [i \in DOMAIN mercy_rules[k] |->
                  ExpectedLine(title(mercy_rules[k][i].rarity),
                               mercy_rules[k][i], data[k])]]

\* The section that reports the two primal counters, 0 for an absent one.
ExpectedPrimal(data) ==
    LET pl == DictGet(data, "primal_legendary", 0)
        pm == DictGet(data, "primal_mythical", 0)
    IN  [title |-> "Primal",
         total |-> IF pl >= pm THEN pl ELSE pm,
         lines |-> <<ExpectedLine("Legendary", mercy_rules["primal"][1], pl),
                     ExpectedLine("Mythical", mercy_rules["primal"][2], pm)>>]

PrimalCounters == {"primal_legendary", "primal_mythical"}

\* C15: the report of get_status has a section for every key of the record
\* that is a tracked category, whatever its count, the primal counters
\* included; it has no section for another key; and get_status returns the
\* no-data message only for a record with no tracked key.
C15_SectionForEveryTrackedKey ==
    last.op = "get_status" =>
        LET data == last.data
            shown == {ExpectedSection(data, k) :
                        k \in (DOMAIN data) \cap DOMAIN mercy_rules}
        IN  /\ shown \subseteq last.out.sections
            /\ (DOMAIN data) \cap PrimalCounters # {}
                  => ExpectedPrimal(data) \in last.out.sections
            /\ last.out.sections \subseteq shown \cup {ExpectedPrimal(data)}
            /\ last.out = NoMercyData
                  => (DOMAIN data) \cap (PrimalCounters \cup DOMAIN mercy_rules) = {}

\* C16: verify_backup_integrity, when its read of the file works, returns
\* True for the snapshot that a backup_data or create_manual_backup that
\* returned a path has just written, and False with the not-a-dictionary
\* reason for a file that holds a JSON array; whatever it returns, it
\* leaves the backup folder, the canonical file and the Store as they were.
C16_VerifyIntegrity ==
    [][last'.op = "verify" =>
        LET name == last'.args[1]
        IN  /\ UNCHANGED <<folder, canon, user_data>>
            /\ ( /\ last.op \in {"backup", "manual"} /\ last.path.ok
                 /\ name = last.path.name /\ last'.bfault = "none" )
               => last'.out = <<TRUE, "Backup integrity verified">>
            /\ ( /\ name \in DOMAIN folder.files
                 /\ folder.files[name].text = ArrayText
                 /\ last'.bfault = "none" )
               => last'.out = <<FALSE, "Invalid data structure - not a dictionary">>]_vars

\* C16, reached: the folder holds the array file and a snapshot of this
\* run, and the snapshot was verified.
C16_Witness ==
    /\ last.op = "verify" /\ last.out[1]
    /\ last.args[1][1] >= 0
    /\ \E n \in DOMAIN folder.files : folder.files[n].text = ArrayText

\* C17: a confirmed reset of one category, or of "primal" for the two
\* primal counters, leaves the user's record with those keys present at 0
\* and every other key as it was, and leaves every other user's record as
\* it was.
C17_ResetCategoryFrame ==
    [][(last'.op = "reset" /\ last'.key # "reset_all") =>
        LET u  == last'.user
            ks == ResetKeys(last'.key)
        IN  /\ DOMAIN user_data' = DOMAIN user_data
            /\ \A v \in (DOMAIN user_data) \ {u} : user_data'[v] = user_data[v]
            /\ DOMAIN user_data'[u] = (DOMAIN user_data[u]) \cup ks
            /\ \A k \in ks : user_data'[u][k] = 0
            /\ \A k \in (DOMAIN user_data[u]) \ ks :
                   user_data'[u][k] = user_data[u][k]]_vars

\* C17, reached: u1 reset "primal"; the two primal counters are present
\* at 0, sacred stands at 12 and the record of u2 is as loaded.
C17_Witness ==
    /\ last.op = "reset" /\ last.key = "primal" /\ last.user = "u1"
    /\ user_data["u1"] = [k \in {"sacred", "primal_legendary", "primal_mythical"} |->
                            IF k = "sacred" THEN 12 ELSE 0]
    /\ user_data["u2"] = [k \in {"ancient"} |-> 200]

\* C18: a confirmed reset-all leaves the user with an empty record and
\* every other user's record as it was, and /status then tells the user
\* that there is no data.
C18_ResetAllFrame ==
    [][(last'.op = "reset" /\ last'.key = "reset_all") =>
        LET u == last'.user
        IN  /\ DOMAIN user_data' = DOMAIN user_data
            /\ user_data'[u] = EmptyDict
            /\ \A v \in (DOMAIN user_data) \ {u} : user_data'[v] = user_data[v]
            /\ status_reply(user_data', u) = NoDataFound]_vars

\* C18, reached: u1 reset all; the record of u1 is empty and the record of
\* u2 is as loaded.
C18_Witness ==
    /\ last.op = "reset" /\ last.key = "reset_all" /\ last.user = "u1"
    /\ user_data["u1"] = EmptyDict
    /\ user_data["u2"] = [k \in {"ancient"} |-> 200]
    /\ canon.text = json_dump(user_data)

\* C19: a press by a user the view was not made for changes neither the
\* Store nor the canonical file nor the backup folder; a step that changes
\* the Store or the canonical file is an /open or a confirmed reset made by
\* the owner of the view, and it changes no record but the owner's.
C19_OnlyOwnerMutates ==
    [][/\ last'.op = "denied" => UNCHANGED <<user_data, canon, folder>>
       /\ (user_data' # user_data \/ canon' # canon) =>
             /\ last'.op \in {"open", "reset"}
             /\ last'.actor = last'.user
             /\ DOMAIN user_data' = (DOMAIN user_data) \cup {last'.user}
             /\ \A v \in (DOMAIN user_data) \ {last'.user} :
                    user_data'[v] = user_data[v]]_vars

\* C19, reached: after a change of the Store, with a reset view of u1
\* waiting, a user it was not made for pressed and was turned away.
C19_Witness ==
    /\ last.op = "denied" /\ nops > 0 /\ "u1" \in views
    /\ canon.exists /\ canon.text = json_dump(user_data)

\* C20: every key of every record of the Store is a member of
\* VALID_SHARD_TYPES.
C20_KeysAreValid ==
    \A u \in DOMAIN user_data : DOMAIN user_data[u] \subseteq VALID_SHARD_TYPES

\* C20, reached: the record of u2, loaded with ancient, was given remnant
\* by a reset and void by an /open.
C20_Witness ==
    /\ last.op = "open" /\ last.user = "u2" /\ last.key = "void"
    /\ DOMAIN user_data["u2"] = {"ancient", "remnant", "void"}

\* C21: on a fresh installation, after whatever /open and /reset actions,
\* every counter of every record of the Store is an integer that is not
\* negative.
C21_CountersNonNegative ==
    \A u \in DOMAIN user_data : \A k \in DOMAIN user_data[u] :
        user_data[u][k] \in Nat

\* C21, reached: u1 opened primal shards of both rarities and reset the
\* legendary counter, which stands at 0 beside the mythical counter at 2.
C21_Witness ==
    /\ last.op = "reset" /\ last.user = "u1" /\ last.key = "primal_legendary"
    /\ "u1" \in DOMAIN user_data
    /\ user_data["u1"] = [k \in {"primal_legendary", "primal_mythical"} |->
                            IF k = "primal_legendary" THEN 0 ELSE 2]

\* Whether a step of the call made with fault fails, on the folder fd the
\* call finds: the steps of the call itself, not those of the pruning that
\* backup_data calls, whose failures cleanup_old_backups keeps to itself.
\* restore_data reads one of the snapshots of the newest modification
\* time: its json.load fails for certain when none of them holds JSON.
StepFails(op, fault, fd, name) ==
    CASE op \in {"backup", "manual"} ->
            (fault = "mkdir" /\ ~fd.exists) \/ fault \in {"open", "write"}
      [] op = "cleanup" ->
            /\ fd.exists
            /\ \/ fault = "listdir"
               \/ fault = "remove" /\ Cardinality(DOMAIN fd.files) > MAX_BACKUPS
      [] op = "restore" ->
            \/ fault = "mkdir" /\ ~fd.exists
            \/ fault = "listdir"
            \/ /\ fault # "mkdir" /\ DOMAIN fd.files # {}
               /\ \/ fault = "read"
                  \/ \A f \in Newest(fd) : ~fd.files[f].text.ok
      [] op = "list" ->
            \/ fault = "mkdir" /\ ~fd.exists
            \/ fault = "listdir"
            \/ fault = "stat" /\ DOMAIN fd.files # {}
      [] op \in {"specific", "verify"} ->
            /\ name \in DOMAIN fd.files
            /\ fault = "read" \/ ~fd.files[name].text.ok
      [] OTHER -> FALSE

\* The calls of backup_manager.py.
BackupManagerCalls ==
    {"backup", "manual", "cleanup", "restore", "specific", "list", "verify"}

\* C22: no function of backup_manager.py raises to its caller, whichever
\* of its steps fails; when a step of it fails, backup_data,
\* create_manual_backup, restore_data and restore_from_specific_backup
\* return None, list_backups returns the empty list and
\* verify_backup_integrity a pair that begins with False; a failure in the
\* pruning is kept by cleanup_old_backups and backup_data returns the path.
C22_BackupManagerNeverRaises ==
    [][last'.op \in BackupManagerCalls =>
        LET name  == IF last'.args = << >> THEN <<0, "">> ELSE last'.args[1]
            fails == StepFails(last'.op, last'.bfault, folder, name)
        IN  /\ ~last'.raised
            /\ (fails /\ last'.op \in {"backup", "manual"}) => ~last'.path.ok
            /\ (fails /\ last'.op \in {"restore", "specific"}) => ~last'.ret.ok
            /\ (fails /\ last'.op = "list") => last'.out = << >>
            /\ (fails /\ last'.op = "verify") => last'.out[1] = FALSE
            /\ ( /\ last'.op = "backup" /\ ~fails
                 /\ last'.bfault \in {"listdir", "remove"} ) => last'.path.ok]_vars

\* C22, reached: restore_data found a newest snapshot that a failed write
\* had left truncated; json.load raised, and None was returned.
C22_Witness ==
    /\ last.op = "restore" /\ last.bfault = "none"
    /\ last.exc = "JSONDecodeError" /\ ~last.ret.ok /\ ~last.raised
    /\ \E f \in DOMAIN folder.files : ~folder.files[f].text.ok

\* C23: when cleanup_old_backups finds more than MAX_BACKUPS snapshots and
\* the deletion of one of the excess files fails, it deletes every other
\* excess file in the same call: one snapshot more than MAX_BACKUPS stays.
C23_CleanupSkipsFailedDelete ==
    [][( /\ last'.op = "cleanup" /\ last'.bfault = "remove"
         /\ Cardinality(backup_files(folder)) > MAX_BACKUPS )
       => Cardinality(backup_files(folder')) = MAX_BACKUPS + 1]_vars

\* The calls of ask_amount in ps that added their amount to counter k of
\* user u.
AppliedTo(ps, u, k) ==
    {i \in DOMAIN ps :
        ps[i].result = "applied" /\ ps[i].owner = u /\ k \in KeysOf(ps[i].key)}

\* The sum of the amounts of the calls I of ps.
RECURSIVE AmountSum(_, _)
AmountSum(ps, I) ==
    IF I = {} THEN 0
    ELSE LET i == CHOOSE x \in I : TRUE
         IN  int(ps[i].content) + AmountSum(ps, I \ {i})

\* As long as no reset was confirmed (every counted action is an applied
\* amount), every counter is the sum of the amounts accepted for it.
NoAmountLost(store, ps, n) ==
    n = Cardinality({i \in DOMAIN ps : ps[i].result = "applied"}) =>
        \A u \in Users, k \in VALID_SHARD_TYPES :
            DictGet(RecordOf(store, u), k, 0) = AmountSum(ps, AppliedTo(ps, u, k))

\* C24: in every interleaving of /open and /reset flows of the same or of
\* different users, a step that changes the Store or the canonical file is
\* one whole action, an accepted amount added to every counter of its
\* button or a confirmed reset, and it leaves the canonical file holding
\* the Store after that action; and no accepted amount is lost.
C24_ActionsRunWhole ==
    [][/\ canon'.exists => canon'.text = json_dump(user_data')
       /\ NoAmountLost(user_data', prompts', nops')
       /\ (user_data' # user_data \/ canon' # canon) =>
             \/ \E i \in DOMAIN prompts :
                   LET u      == prompts[i].owner
                       amount == int(prompts[i].content)
                       ks     == KeysOf(prompts[i].key)
                       old    == RecordOf(user_data, u)
                       new    == RecordOf(user_data', u)
                   IN  /\ prompts[i].state = "message"
                       /\ prompts'[i].result = "applied"
                       /\ 1 <= amount /\ amount <= MAX_AMOUNT_PER_COMMAND
                       /\ DOMAIN new = (DOMAIN old) \cup ks
                       /\ \A k \in ks : new[k] = DictGet(old, k, 0) + amount
                       /\ \A k \in (DOMAIN old) \ ks : new[k] = old[k]
                       /\ \A v \in (DOMAIN user_data) \ {u} :
                              user_data'[v] = user_data[v]
             \/ /\ last'.op = "reset"
                /\ LET u   == last'.user
                       ks  == ResetKeys(last'.key)
                       old == user_data[u]
                       new == user_data'[u]
                   IN  /\ DOMAIN user_data' = DOMAIN user_data
                       /\ \A v \in (DOMAIN user_data) \ {u} :
                              user_data'[v] = user_data[v]
                       /\ IF last'.key = "reset_all" THEN new = EmptyDict
                          ELSE /\ DOMAIN new = (DOMAIN old) \cup ks
                               /\ \A k \in ks : new[k] = 0
                               /\ \A k \in (DOMAIN old) \ ks : new[k] = old[k]]_vars

\* C24, reached: while a prompt of u2 still waited, u1's amount for the
\* button Both was added to the two primal counters and saved, and u1's
\* reset view was opened afterwards.
C24_Witness ==
    /\ \E i \in DOMAIN prompts :
          prompts[i].owner = "u2" /\ prompts[i].state = "waiting"
    /\ \E i \in DOMAIN prompts :
          /\ prompts[i].owner = "u1" /\ prompts[i].key = "both"
          /\ prompts[i].result = "applied"
    /\ "u1" \in views
    /\ user_data = [u \in {"u1"} |->
                      [k \in {"primal_legendary", "primal_mythical"} |-> 1]]
    /\ canon.exists /\ canon.text = json_dump(user_data)

\* C25: one message adds its amount for at most one call of ask_amount: no
\* two calls that applied an amount were given the same message.
C25_OneMessageOneUpdate ==
    \A i, j \in DOMAIN prompts :
        ( /\ prompts[i].result = "applied" /\ prompts[j].result = "applied"
          /\ prompts[i].msg = prompts[j].msg ) => i = j

\* C26: an /open action that ends in the except clause of ask_amount, with
\* the reply "No valid amount received", as it does when save_data raises,
\* leaves the Store as it was before the action.
C26_FailureLeavesStore ==
    [][(last'.op = "open" /\ last'.raised) => user_data' = user_data]_vars

\* C27: when the bot's save_data(newData) has written its snapshot and the
\* process ends in the write of the canonical file, which it leaves
\* truncated as a write that fails part-way does, the next load_data, its
\* steps working, returns the Store before the action or newData, and not
\* the empty Store.
C27_LoadAfterCrashedWrite ==
    [][( /\ last'.op \in {"open", "reset"} /\ last'.applied
         /\ last'.wfault = "write" /\ last'.path.ok )
       => /\ canon'.exists /\ ~json_parses(canon'.text)
          /\ \A o \in load_data(canon', folder', "none", "none") :
                /\ o.data \in {user_data, last'.data}
                /\ o.data # EmptyDict]_vars

\* C27, reached: the process started again on a truncated canonical file
\* and load_data returned the Store of the newest snapshot, the one that
\* the save before the restart had written.
C27_Witness ==
    /\ last.op = "load" /\ nops = 2
    /\ canon.exists /\ ~json_parses(canon.text)
    /\ user_data # EmptyDict
    /\ \E f \in Newest(folder) : folder.files[f].text = json_dump(user_data)
    /\ \A u \in DOMAIN user_data : \E k \in DOMAIN user_data[u] : user_data[u][k] = 3

\* C28: after a backup_data that returned a path, the snapshot it wrote is
\* in the backup folder: the pruning of the same call has not deleted it,
\* whatever the folder held before, snapshots of the same modification
\* time included.
C28_NewSnapshotSurvivesPruning ==
    (last.op = "backup" /\ last.path.ok) =>
        last.path.name \in backup_files(folder)

\* The tiers a report of get_status shows: category, tier, whether mercy is
\* active, the remaining count (0 on an active line, which shows none) and
\* the bonus (0 on a line below the threshold, which shows none).
ReportedTiers(report) ==
    {[category |-> sec.title, rarity |-> sec.lines[i].rarity,
      active |-> sec.lines[i].active,
      remaining |-> IF sec.lines[i].active THEN 0 ELSE sec.lines[i].numbers[1],
      chance_increase |-> IF sec.lines[i].active THEN sec.lines[i].numbers[1]
                          ELSE 0] :
        <<sec, i>> \in {<<s, j>> \in report.sections \X {1, 2} :
                            j \in DOMAIN s.lines}}

\* The same of a dictionary of get_detailed_status; primal_legendary and
\* primal_mythical are the two tiers of the category Primal.
DetailedTiers(detailed_info) ==
    {[category |-> IF kr[1] \in {"primal_legendary", "primal_mythical"}
                   THEN "Primal" ELSE title(kr[1]),
      rarity |-> title(kr[2]),
      active |-> detailed_info[kr[1]].mercy_status[kr[2]].active,
      remaining |-> detailed_info[kr[1]].mercy_status[kr[2]].remaining,
      chance_increase |-> detailed_info[kr[1]].mercy_status[kr[2]].chance_increase] :
        kr \in {x \in (DOMAIN detailed_info) \X {"legendary", "mythical"} :
                    x[2] \in DOMAIN detailed_info[x[1]].mercy_status}}

\* C29: on every record get_detailed_status reports the tiers that
\* get_status reports, each with the same active-or-not decision, the same
\* remaining count and the same bonus, also when one of primal_legendary
\* and primal_mythical is 0 and the other is positive.
C29_StatusFunctionsAgree ==
    last.op = "get_detailed_status" =>
        DetailedTiers(last.out) = ReportedTiers(get_status(last.data))

\* No two messages in the channel announce the same reset of the same event.
OneReminderEach(ch) ==
    \A i, j \in DOMAIN ch : ch[i] = ch[j] => i = j

\* C30: in the rounds of reminder_loop of one run at most one reminder is
\* sent for each pair of event and reset time, and the stored reset time of
\* a rotating event moves forward by exactly the period of the event in
\* every round that finds it in the past, and in no other round.
C30_ReminderLoop ==
    [][last'.op = "reminder_loop" =>
          /\ OneReminderEach(channel')
          /\ \A e \in DOMAIN ROTATING_EVENTS :
                reset_data'[e] =
                    IF utcnow' > reset_data[e]
                    THEN reset_data[e] + timedelta(ROTATING_EVENTS[e], 0, 0)
                    ELSE reset_data[e]]_vars

=============================================================================
